---- MODULE Spec2Model ----
(***************************************************************************)
(* Model of src/src/index.ts: the ZK compression fee comparison script.    *)
(* One run of main(): configuration checks, wallet loading, the standard   *)
(* transfer probe, the pause, the three-step compressed transfer probe,    *)
(* the summary, and the top-level main().catch(console.error).             *)
(* The chain and the compression service are a backend whose answers       *)
(* (fees, records, failures, whether the token account exists) are chosen  *)
(* nondeterministically.                                                   *)
(***************************************************************************)
EXTENDS Integers, Sequences, FiniteSets, TLC

VARIABLES
    env,              \* process.env: HELIUS_API_KEY, TEST_RECIPIENT_ADDRESS, TEST_WALLET_MNEMONIC
    pc,               \* position of the run
    wallet,           \* the keypair loadWallet returned ("" before)
    built,            \* number of Transaction objects / signed transactions built
    chain,            \* transactions submitted to the backend, in order
    confirmed,        \* ids reported confirmed by the submitting call
    stdConfirmed,     \* ids confirmed by connection.confirmTransaction
    txRecords,        \* backend: id -> the transaction record getTransaction returns
    ataExists,        \* backend: the wallet's wrapped-SOL token account exists
    wrapped,          \* backend: lamports in the wrapped-SOL token account
    compressed,       \* backend: compressed balance by owner
    priorCompressed,  \* backend: the wallet's compressed balance when the run began
    txHash,           \* local of testStandardTransfer (0 before)
    ataInfo,          \* local of testCompressedTransfer
    compressTxId,     \* local of testCompressedTransfer (0 before)
    transferTxId,     \* local of testCompressedTransfer (0 before)
    standardResult,   \* local of main
    compressedResult, \* local of main
    out,              \* console.log lines that matter
    error,            \* the exception main() rejected with ("" when none)
    logged,           \* console.error lines
    exitCode          \* exit status of the process (meaningful once pc = "exited")

vars == <<env, pc, wallet, built, chain, confirmed, stdConfirmed, txRecords,
          ataExists, wrapped, compressed, priorCompressed, txHash, ataInfo, compressTxId, transferTxId,
          standardResult, compressedResult, out, error, logged, exitCode>>

backend == <<chain, confirmed, stdConfirmed, txRecords, ataExists, wrapped, compressed,
             priorCompressed>>
locals  == <<wallet, built, txHash, ataInfo, compressTxId, transferTxId, standardResult, compressedResult>>
io      == <<out, logged, exitCode>>

----------------------------------------------------------------------------
(* Bounds of the model *)

\* fees the backend may record are 0 .. MaxFeeUnits base fees
MaxFeeUnits == 2
\* compressed balance the wallet may hold before the run, in test amounts
MaxPriorUnits == 1

(* Program constants *)

LAMPORTS_PER_SOL == 1000000000
\* TEST_AMOUNT = 0.001, kept as the fraction TEST_AMOUNT_NUM / TEST_AMOUNT_DEN
TEST_AMOUNT_NUM == 1
TEST_AMOUNT_DEN == 1000
\* the base fee per signature (header comment of the script)
BASE_FEE == 5000

Fees == {k * BASE_FEE : k \in 0..MaxFeeUnits}

----------------------------------------------------------------------------
(* Environment and configuration *)

UNSET == "<undefined>"
WALLET == "walletPubkey"
ATA == "wrappedSolAta"
RECIPIENT == "recipientPubkey"
BAD_ADDRESS == "not-a-public-key"
MNEMONIC == "seed phrase words"
API_KEY == "key"

\* process.env.X || ""
OrEmpty(v) == IF v = UNSET \/ v = "" THEN "" ELSE v

HELIUS_API_KEY == OrEmpty(env.HELIUS_API_KEY)
RECIPIENT_ADDRESS == OrEmpty(env.TEST_RECIPIENT_ADDRESS)

\* !x on a string
Falsy(v) == v = UNSET \/ v = ""

\* new PublicKey(s) throws on input that is no public key
ValidPublicKey(s) == s = RECIPIENT

----------------------------------------------------------------------------
(* Values *)

\* the amount with the floor taken too early: Math.floor(TEST_AMOUNT) * LAMPORTS_PER_SOL
transferLamports_floorFirst == (TEST_AMOUNT_NUM \div TEST_AMOUNT_DEN) * LAMPORTS_PER_SOL

\* Math.floor(TEST_AMOUNT * LAMPORTS_PER_SOL)
transferLamports == (TEST_AMOUNT_NUM * LAMPORTS_PER_SOL) \div TEST_AMOUNT_DEN

\* Math.floor(TEST_AMOUNT * 2 * LAMPORTS_PER_SOL)
lamportsToCompress == (TEST_AMOUNT_NUM * 2 * LAMPORTS_PER_SOL) \div TEST_AMOUNT_DEN

\* the compressed transfer moving all that was compressed
transferAmount_all == (TEST_AMOUNT_NUM * 2 * LAMPORTS_PER_SOL) \div TEST_AMOUNT_DEN

\* Math.floor(TEST_AMOUNT * LAMPORTS_PER_SOL) of the compressed probe
transferAmount == (TEST_AMOUNT_NUM * LAMPORTS_PER_SOL) \div TEST_AMOUNT_DEN

\* what getTransaction can return: null, a record without meta, a record with meta.fee
NullRecord == [found |-> FALSE, meta |-> FALSE, fee |-> 0]
NoMetaRecord == [found |-> TRUE, meta |-> FALSE, fee |-> 0]
FeeRecord(f) == [found |-> TRUE, meta |-> TRUE, fee |-> f]
TxDetails == {NullRecord, NoMetaRecord} \cup {FeeRecord(f) : f \in Fees}

\* the fee defaulting to the base fee instead of 0
FeeOf_defaultBase(txDetails) ==
    IF txDetails.found /\ txDetails.meta /\ txDetails.fee # 0
    THEN txDetails.fee
    ELSE BASE_FEE

\* txDetails?.meta?.fee || 0
FeeOf(txDetails) ==
    IF txDetails.found /\ txDetails.meta /\ txDetails.fee # 0
    THEN txDetails.fee
    ELSE 0

\* (fee / LAMPORTS_PER_SOL).toFixed(9): integer part and nine decimals
FeeSOL(fee) == <<fee \div LAMPORTS_PER_SOL, fee % LAMPORTS_PER_SOL>>

\* `https://solscan.io/tx/${txHash}`
ExplorerUrl(signature) == <<"https://solscan.io/tx/", signature>>

NoResult == [type |-> "none", txHash |-> 0, fee |-> 0,
             feeSOL |-> <<0, 0>>, explorerUrl |-> <<"", 0>>]

TestResult(type, signature, fee) ==
    [type |-> type, txHash |-> signature, fee |-> fee,
     feeSOL |-> FeeSOL(fee), explorerUrl |-> ExplorerUrl(signature)]

(* Instructions and transactions *)

Ix(op, from, to, lamports) == [op |-> op, from |-> from, to |-> to, lamports |-> lamports]

\* SystemProgram.transfer({fromPubkey, toPubkey, lamports})
SystemTransfer(from, to, lamports) == Ix("transfer", from, to, lamports)

\* the instruction list of the standard probe's transaction
StandardInstructions == <<SystemTransfer(wallet, RECIPIENT_ADDRESS, transferLamports)>>

\* the wrap transaction creating the account whether or not it exists
WrapInstructions_alwaysCreate(info) ==
    <<Ix("createAta", wallet, ATA, 0),
      SystemTransfer(wallet, ATA, lamportsToCompress),
      Ix("syncNative", ATA, ATA, 0)>>

\* the instruction list of the wrap transaction, by the branch on ataInfo
WrapInstructions(info) ==
    IF ~info
    THEN <<Ix("createAta", wallet, ATA, 0),
           SystemTransfer(wallet, ATA, lamportsToCompress),
           Ix("syncNative", ATA, ATA, 0)>>
    ELSE <<SystemTransfer(wallet, ATA, lamportsToCompress),
           Ix("syncNative", ATA, ATA, 0)>>

\* [computeUnits, compressIx]
CompressInstructions ==
    <<Ix("setComputeUnitLimit", wallet, wallet, 0),
      Ix("compress", ATA, wallet, lamportsToCompress)>>

\* the transaction the compressed-token transfer() primitive submits
CompressedTransferInstructions ==
    <<Ix("compressedTransfer", wallet, RECIPIENT_ADDRESS, transferAmount)>>

NextTxId == Len(chain) + 1

Tx(step, via, instrs) == [id |-> NextTxId, step |-> step, via |-> via, instrs |-> instrs]

\* the backend accepts a transaction: it is on the chain, with the record the
\* backend keeps of it (rec)
Submit(tx, rec) ==
    /\ chain' = Append(chain, tx)
    /\ txRecords' = [txRecords EXCEPT ![tx.id] = rec]

----------------------------------------------------------------------------
(* Initial states *)

Init ==
    /\ env \in [HELIUS_API_KEY : {UNSET, "", API_KEY},
                TEST_RECIPIENT_ADDRESS : {UNSET, "", RECIPIENT, BAD_ADDRESS},
                TEST_WALLET_MNEMONIC : {UNSET, "", MNEMONIC}]
    /\ pc = "main"
    /\ wallet = ""
    /\ built = 0
    /\ chain = <<>>
    /\ confirmed = {}
    /\ stdConfirmed = {}
    /\ txRecords = [i \in 1..4 |-> NullRecord]
    /\ ataExists \in BOOLEAN
    /\ wrapped = 0
    /\ priorCompressed \in {k * transferAmount : k \in 0..MaxPriorUnits}
    /\ compressed = [o \in {WALLET, RECIPIENT} |-> IF o = WALLET THEN priorCompressed ELSE 0]
    /\ txHash = 0
    /\ ataInfo = FALSE
    /\ compressTxId = 0
    /\ transferTxId = 0
    /\ standardResult = NoResult
    /\ compressedResult = NoResult
    /\ out = <<>>
    /\ error = ""
    /\ logged = <<>>
    /\ exitCode = 0

----------------------------------------------------------------------------
(* Exceptions *)

\* the exception noted where it was raised, and the call tried again
Throw_retry(msg) ==
    /\ pc' = pc
    /\ error' = msg

\* a throw inside main() or a callee: nothing catches it before main's promise
\* rejects; the named variables are left as they are
Throw(msg) ==
    /\ pc' = "rejected"
    /\ error' = msg

\* an awaited library call that changes nothing in the model: it returns, or raises
AwaitCall(next, failure) ==
    /\ \/ pc' = next /\ UNCHANGED error
       \/ Throw(failure)
    /\ UNCHANGED <<env, backend, locals, io>>

\* sendAndConfirmTransaction / sendAndConfirmTx / transfer: the call raises before
\* the backend accepted the transaction, or the transaction is submitted and the
\* confirmation raises, or it is submitted and reported confirmed
SendAndConfirm(tx, next, failure) ==
    \/ /\ Throw(failure)
       /\ UNCHANGED <<chain, txRecords, confirmed>>
    \/ /\ \E rec \in TxDetails : Submit(tx, rec)
       /\ Throw(failure)
       /\ UNCHANGED confirmed
    \/ /\ \E rec \in TxDetails : Submit(tx, rec)
       /\ confirmed' = confirmed \cup {tx.id}
       /\ pc' = next
       /\ UNCHANGED error

\* connection.getTransaction(signature, ...): the record the backend keeps
GetTransaction(signature) == txRecords[signature]

\* a console.log line: what it is and the values it shows
Line(tag, vals) == [tag |-> tag, vals |-> vals]

----------------------------------------------------------------------------
(* main: configuration *)

\* lines 263-269: the two guards at the head of main
CheckConfig ==
    /\ pc = "main"
    /\ IF Falsy(HELIUS_API_KEY)
       THEN Throw("HELIUS_API_KEY environment variable not set")
       ELSE IF Falsy(RECIPIENT_ADDRESS)
            THEN Throw("TEST_RECIPIENT_ADDRESS environment variable not set")
            ELSE pc' = "loadWallet" /\ UNCHANGED error
    /\ UNCHANGED <<env, backend, locals, io>>

\* the guard taking only an unset variable for missing
MnemonicMissing_unsetOnly(mnemonic) == mnemonic = UNSET

\* loadWallet's guard on the seed phrase
MnemonicMissing(mnemonic) == Falsy(mnemonic)

\* loadWallet, and the Connection main creates after it
LoadWallet ==
    /\ pc = "loadWallet"
    /\ IF MnemonicMissing(env.TEST_WALLET_MNEMONIC)
       THEN Throw("TEST_WALLET_MNEMONIC not set") /\ UNCHANGED wallet
       ELSE wallet' = WALLET /\ pc' = "getBalance" /\ UNCHANGED error
    /\ UNCHANGED <<env, backend, built, txHash, ataInfo, compressTxId, transferTxId,
                   standardResult, compressedResult, io>>

\* connection.getBalance(wallet.publicKey) and the balance line
GetBalance ==
    /\ pc = "getBalance"
    /\ \/ /\ pc' = "std_build"
          /\ out' = Append(out, Line("balance", <<>>))
          /\ UNCHANGED error
       \/ Throw("getBalance failed") /\ UNCHANGED out
    /\ UNCHANGED <<env, backend, locals, logged, exitCode>>

----------------------------------------------------------------------------
(* testStandardTransfer *)

\* new PublicKey(RECIPIENT_ADDRESS) and the Transaction with the one transfer
StdBuild ==
    /\ pc = "std_build"
    /\ IF ValidPublicKey(RECIPIENT_ADDRESS)
       THEN built' = built + 1 /\ pc' = "std_send" /\ UNCHANGED error
       ELSE Throw("Invalid public key input") /\ UNCHANGED built
    /\ UNCHANGED <<env, backend, wallet, txHash, ataInfo, compressTxId, transferTxId,
                   standardResult, compressedResult, io>>

\* const txHash = await sendAndConfirmTransaction(connection, tx, [wallet])
StdSend ==
    /\ pc = "std_send"
    /\ SendAndConfirm(Tx("standard", "connection", StandardInstructions),
                      "std_lookup", "sendAndConfirmTransaction failed (standard)")
    /\ txHash' = IF pc' = "std_lookup" THEN NextTxId ELSE txHash
    /\ UNCHANGED <<env, stdConfirmed, ataExists, wrapped, compressed, priorCompressed, wallet, built,
                   ataInfo, compressTxId, transferTxId, standardResult,
                   compressedResult, io>>

\* the transaction the standard probe looks up and reports
StdTxHash == txHash

\* getTransaction, the fee, and the returned result
StdLookup ==
    /\ pc = "std_lookup"
    /\ \/ /\ standardResult' = TestResult("Standard Transfer", StdTxHash,
                                          FeeOf(GetTransaction(StdTxHash)))
          /\ pc' = "pause"
          /\ UNCHANGED error
       \/ Throw("getTransaction failed (standard)") /\ UNCHANGED standardResult
    /\ UNCHANGED <<env, backend, wallet, built, txHash, ataInfo, compressTxId,
                   transferTxId, compressedResult, io>>

\* the five-second wait between the probes
Pause ==
    /\ pc = "pause"
    /\ out' = Append(out, Line("waiting", <<>>))
    /\ pc' = "cmp_getAccountInfo"
    /\ UNCHANGED <<env, backend, locals, error, logged, exitCode>>

----------------------------------------------------------------------------
(* testCompressedTransfer *)

\* Step 1: connection.getAccountInfo(associatedTokenAccount)
CmpGetAccountInfo ==
    /\ pc = "cmp_getAccountInfo"
    /\ \/ ataInfo' = ataExists /\ pc' = "cmp_wrap" /\ UNCHANGED error
       \/ Throw("getAccountInfo failed") /\ UNCHANGED ataInfo
    /\ UNCHANGED <<env, backend, wallet, built, txHash, compressTxId, transferTxId,
                   standardResult, compressedResult, io>>

\* Step 1: the wrap transaction of either branch, sent and confirmed
CmpWrap ==
    /\ pc = "cmp_wrap"
    /\ built' = built + 1
    /\ SendAndConfirm(Tx("wrap", "connection", WrapInstructions(ataInfo)),
                      "cmp_treeInfos", "sendAndConfirmTransaction failed (wrap)")
    /\ ataExists' = IF pc' = "cmp_treeInfos" THEN TRUE ELSE ataExists
    /\ wrapped' = IF pc' = "cmp_treeInfos" THEN wrapped + lamportsToCompress ELSE wrapped
    /\ UNCHANGED <<env, stdConfirmed, compressed, priorCompressed, wallet, txHash, ataInfo,
                   compressTxId, transferTxId, standardResult, compressedResult, io>>

\* Step 2: lightRpc.getStateTreeInfos()
GetStateTreeInfos ==
    /\ pc = "cmp_treeInfos"
    /\ AwaitCall("cmp_poolInfos", "getStateTreeInfos failed")

\* Step 2: getTokenPoolInfos(lightRpc, NATIVE_SOL_MINT)
GetTokenPoolInfos ==
    /\ pc = "cmp_poolInfos"
    /\ AwaitCall("cmp_compressIx", "getTokenPoolInfos failed")

\* Step 2: CompressedTokenProgram.compress({... amount: lamportsToCompress ...})
BuildCompressIx ==
    /\ pc = "cmp_compressIx"
    /\ AwaitCall("cmp_blockhash", "compress failed")

\* Step 2: connection.getLatestBlockhash()
GetLatestBlockhash ==
    /\ pc = "cmp_blockhash"
    /\ AwaitCall("cmp_buildTx", "getLatestBlockhash failed")

\* Step 2: buildAndSignTx([computeUnits, compressIx], wallet, blockhash, [])
BuildAndSignTx ==
    /\ pc = "cmp_buildTx"
    /\ \/ built' = built + 1 /\ pc' = "cmp_sendCompress" /\ UNCHANGED error
       \/ Throw("buildAndSignTx failed") /\ UNCHANGED built
    /\ UNCHANGED <<env, backend, wallet, txHash, ataInfo, compressTxId, transferTxId,
                   standardResult, compressedResult, io>>

\* the run going on to Step 3 without connection.confirmTransaction(compressTxId)
AfterSendCompress_noConfirm == "cmp_transfer"

\* where the run goes once sendAndConfirmTx returned compressTxId
AfterSendCompress == "cmp_confirmCompress"

\* Step 2: const compressTxId = await sendAndConfirmTx(lightRpc, compressTx)
CmpSendCompress ==
    /\ pc = "cmp_sendCompress"
    /\ SendAndConfirm(Tx("compress", "lightRpc", CompressInstructions),
                      AfterSendCompress, "sendAndConfirmTx failed (compress)")
    /\ compressTxId' = IF pc' = AfterSendCompress THEN NextTxId ELSE compressTxId
    /\ wrapped' = IF pc' = AfterSendCompress THEN wrapped - lamportsToCompress ELSE wrapped
    /\ compressed' = IF pc' = AfterSendCompress
                     THEN [compressed EXCEPT ![wallet] = @ + lamportsToCompress]
                     ELSE compressed
    /\ UNCHANGED <<env, stdConfirmed, ataExists, priorCompressed, wallet, built, txHash,
                   ataInfo, transferTxId, standardResult, compressedResult, io>>

\* Step 2: connection.confirmTransaction(compressTxId, "confirmed")
ConfirmCompress ==
    /\ pc = "cmp_confirmCompress"
    /\ \/ /\ stdConfirmed' = stdConfirmed \cup {compressTxId}
          /\ pc' = "cmp_transfer"
          /\ UNCHANGED error
       \/ Throw("confirmTransaction failed (compress)") /\ UNCHANGED stdConfirmed
    /\ UNCHANGED <<env, chain, confirmed, txRecords, ataExists, wrapped, compressed,
                   priorCompressed, locals, io>>

\* Step 3: const transferTxId = await transfer(lightRpc, wallet, NATIVE_SOL_MINT,
\* transferAmount, wallet, recipient); the primitive builds, submits and confirms
CmpTransfer ==
    /\ pc = "cmp_transfer"
    /\ SendAndConfirm(Tx("compressedTransfer", "lightRpc", CompressedTransferInstructions),
                      "cmp_confirmTransfer", "transfer failed")
    /\ built' = IF chain' # chain THEN built + 1 ELSE built
    /\ transferTxId' = IF pc' = "cmp_confirmTransfer" THEN NextTxId ELSE transferTxId
    /\ compressed' = IF pc' = "cmp_confirmTransfer"
                     THEN [compressed EXCEPT ![wallet] = @ - transferAmount,
                                             ![RECIPIENT_ADDRESS] = @ + transferAmount]
                     ELSE compressed
    /\ UNCHANGED <<env, stdConfirmed, ataExists, wrapped, priorCompressed, wallet, txHash,
                   ataInfo, compressTxId, standardResult, compressedResult, io>>

\* Step 3: connection.confirmTransaction(transferTxId, "confirmed")
ConfirmTransfer ==
    /\ pc = "cmp_confirmTransfer"
    /\ \/ /\ stdConfirmed' = stdConfirmed \cup {transferTxId}
          /\ pc' = "cmp_lookup"
          /\ UNCHANGED error
       \/ Throw("confirmTransaction failed (transfer)") /\ UNCHANGED stdConfirmed
    /\ UNCHANGED <<env, chain, confirmed, txRecords, ataExists, wrapped, compressed,
                   priorCompressed, locals, io>>

\* the probe reporting the compress transaction
CmpTxHash_compress == compressTxId

\* the transaction the compressed probe looks up and reports
CmpTxHash == transferTxId

\* Step 3: getTransaction(transferTxId), the fee, and the returned result
CmpLookup ==
    /\ pc = "cmp_lookup"
    /\ \/ /\ compressedResult' = TestResult("Compressed Transfer", CmpTxHash,
                                            FeeOf(GetTransaction(CmpTxHash)))
          /\ pc' = "summary"
          /\ UNCHANGED error
       \/ Throw("getTransaction failed (compressed)") /\ UNCHANGED compressedResult
    /\ UNCHANGED <<env, backend, wallet, built, txHash, ataInfo, compressTxId,
                   transferTxId, standardResult, io>>

----------------------------------------------------------------------------
(* main: the summary, and the top level *)

\* the comparison of a fee with itself
KeyFinding_selfCompare(standard, compressedR) ==
    IF standard.fee = standard.fee
    THEN Line("equal", <<standard.fee>>)
    ELSE Line("different", <<standard.fee, compressedR.fee>>)

\* the KEY FINDINGS branch
KeyFinding(standard, compressedR) ==
    IF standard.fee = compressedR.fee
    THEN Line("equal", <<standard.fee>>)
    ELSE Line("different", <<standard.fee, compressedR.fee>>)

\* FINAL RESULTS ... Experiment complete!
PrintSummary ==
    /\ pc = "summary"
    /\ out' = out \o <<Line("standardFee", <<standardResult.fee>> \o standardResult.feeSOL),
                       Line("standardTx", standardResult.explorerUrl),
                       Line("compressedFee", <<compressedResult.fee>> \o compressedResult.feeSOL),
                       Line("compressedTx", compressedResult.explorerUrl),
                       KeyFinding(standardResult, compressedResult),
                       Line("complete", <<>>)>>
    /\ pc' = "resolved"
    /\ UNCHANGED <<env, backend, locals, error, logged, exitCode>>

\* main().catch(console.error): the handler prints the error and returns
CatchHandler ==
    /\ pc = "rejected"
    /\ logged' = Append(logged, error)
    /\ pc' = "caught"
    /\ UNCHANGED <<env, backend, locals, error, out, exitCode>>

\* the exit status of a process whose work is done: 1 after a rejection no
\* handler took, else process.exitCode, which the script never sets
ExitStatus(unhandledRejection) == IF unhandledRejection THEN 1 ELSE 0

\* nothing is pending any more: the process exits
ProcessExit ==
    /\ pc \in {"resolved", "caught"}
    /\ exitCode' = ExitStatus(pc \notin {"resolved", "caught"})
    /\ pc' = "exited"
    /\ UNCHANGED <<env, backend, locals, error, out, logged>>

----------------------------------------------------------------------------

Next ==
    \/ CheckConfig
    \/ LoadWallet
    \/ GetBalance
    \/ StdBuild
    \/ StdSend
    \/ StdLookup
    \/ Pause
    \/ CmpGetAccountInfo
    \/ CmpWrap
    \/ GetStateTreeInfos
    \/ GetTokenPoolInfos
    \/ BuildCompressIx
    \/ GetLatestBlockhash
    \/ BuildAndSignTx
    \/ CmpSendCompress
    \/ ConfirmCompress
    \/ CmpTransfer
    \/ ConfirmTransfer
    \/ CmpLookup
    \/ PrintSummary
    \/ CatchHandler
    \/ ProcessExit

Spec == Init /\ [][Next]_vars

----------------------------------------------------------------------------
(* Vocabulary of the properties *)

Aborted == pc \in {"rejected", "caught", "exited"} /\ error # ""

Succeeded == pc \in {"resolved", "exited"} /\ error = ""

NotSetFaults == {"HELIUS_API_KEY environment variable not set",
                 "TEST_RECIPIENT_ADDRESS environment variable not set",
                 "TEST_WALLET_MNEMONIC not set"}

StandardFaults == {"sendAndConfirmTransaction failed (standard)",
                   "getTransaction failed (standard)"}

CompressedFaults == {"getAccountInfo failed",
                     "sendAndConfirmTransaction failed (wrap)",
                     "sendAndConfirmTx failed (compress)",
                     "confirmTransaction failed (compress)",
                     "transfer failed",
                     "confirmTransaction failed (transfer)",
                     "getTransaction failed (compressed)"}

TxsOf(step) == {i \in 1..Len(chain) : chain[i].step = step}

LinesWith(tag) == {i \in 1..Len(out) : out[i].tag = tag}

SummaryTags == {"standardFee", "standardTx", "compressedFee", "compressedTx",
                "equal", "different", "complete"}

HasFee(rec) == rec.found /\ rec.meta

Ops(instrs) == [i \in 1..Len(instrs) |-> instrs[i].op]

----------------------------------------------------------------------------
(* C1 *)

ConfigMissing ==
    \/ env.HELIUS_API_KEY \in {UNSET, ""}
    \/ env.TEST_RECIPIENT_ADDRESS \in {UNSET, ""}
    \/ env.TEST_WALLET_MNEMONIC \in {UNSET, ""}

\* C1: whenever the API key, the recipient address or the seed phrase is unset or
\* empty, no transaction is ever built or submitted, and once the run has left
\* the configuration checks and wallet loading it has aborted with one of the
\* three "not set" faults, whatever the other two variables hold.
C1_MissingConfigAborts ==
    ConfigMissing =>
        /\ built = 0
        /\ chain = <<>>
        /\ pc \in {"main", "loadWallet", "rejected", "caught", "exited"}
        /\ pc \notin {"main", "loadWallet"} => error \in NotSetFaults

\* the seed phrase alone is missing (empty), the other two are set: aborted
C1_Witness ==
    /\ env.HELIUS_API_KEY = API_KEY
    /\ env.TEST_RECIPIENT_ADDRESS = RECIPIENT
    /\ env.TEST_WALLET_MNEMONIC = ""
    /\ pc = "exited"
    /\ error = "TEST_WALLET_MNEMONIC not set"
    /\ chain = <<>>

----------------------------------------------------------------------------
(* C2 *)

\* C2: on success the process ends after the summary; whenever a failure was
\* raised, the top-level handler has logged it when the process exits, and the
\* exit status is non-zero.
C2_FailureExitsNonZero ==
    pc = "exited" =>
        IF error = ""
        THEN LinesWith("complete") # {} /\ logged = <<>>
        ELSE logged = <<error>> /\ exitCode # 0

----------------------------------------------------------------------------
(* C3 *)

\* C3: once a call has raised, the run is out of main for good: in every
\* state with an exception raised the run is aborted, the summary and the fee
\* comparison are not printed, and a probe that failed has returned no
\* result; and from such a state no step submits a transaction, returns a
\* probe result or prints.
C3_FailurePropagates ==
    /\ [](error # "" =>
            /\ Aborted
            /\ \A i \in 1..Len(out) : out[i].tag \notin SummaryTags
            /\ error \in StandardFaults => standardResult = NoResult
            /\ error \in CompressedFaults => compressedResult = NoResult)
    /\ [][error # "" =>
            /\ chain' = chain
            /\ built' = built
            /\ standardResult' = standardResult
            /\ compressedResult' = compressedResult
            /\ out' = out
            /\ error' = error]_vars

\* the compressed transfer was submitted and its confirmation raised: the run
\* ended with the standard result alone and no summary
C3_Witness ==
    /\ pc = "exited"
    /\ error = "transfer failed"
    /\ Len(chain) = 4
    /\ standardResult # NoResult
    /\ compressedResult = NoResult
    /\ LinesWith("complete") = {}

----------------------------------------------------------------------------
(* C4 *)

\* C4: the standard probe submits at most one transaction, and exactly one once
\* it has returned; that transaction is the single native transfer of
\* floor(0.001 * 10^9) = 1000000 lamports from the wallet to the configured
\* recipient, it is the one named by the result's txHash, and the result's fee
\* is the fee of the backend's record of that transaction.
C4_StandardProbe ==
    /\ Cardinality(TxsOf("standard")) <= 1
    /\ \A i \in TxsOf("standard") :
          chain[i].instrs = <<[op |-> "transfer", from |-> WALLET,
                               to |-> env.TEST_RECIPIENT_ADDRESS, lamports |-> 1000000]>>
    /\ standardResult # NoResult =>
          /\ TxsOf("standard") = {standardResult.txHash}
          /\ standardResult.txHash \in confirmed
          /\ HasFee(txRecords[standardResult.txHash]) =>
                standardResult.fee = txRecords[standardResult.txHash].fee

\* the standard probe returned the base fee the backend recorded
C4_Witness ==
    /\ standardResult # NoResult
    /\ txRecords[standardResult.txHash] = FeeRecord(BASE_FEE)
    /\ standardResult.fee = BASE_FEE
    /\ pc = "pause"

----------------------------------------------------------------------------
(* C5 *)

AfterWrap == {"cmp_treeInfos", "cmp_poolInfos", "cmp_compressIx", "cmp_blockhash",
              "cmp_buildTx", "cmp_sendCompress", "cmp_confirmCompress", "cmp_transfer",
              "cmp_confirmTransfer", "cmp_lookup", "summary", "resolved"}

\* C5: the wrap step submits at most one transaction, and exactly one once it is
\* over; the branch is taken on the account's existence on-chain; when the
\* account did not exist the transaction is create-account, fund with 2000000
\* lamports (twice the test amount), sync, in that order; when it existed it is
\* fund with 2000000 lamports, sync, with no account-creation instruction.
C5_WrapStep ==
    /\ Cardinality(TxsOf("wrap")) <= 1
    /\ pc \in AfterWrap => Cardinality(TxsOf("wrap")) = 1
    /\ pc = "cmp_wrap" => ataInfo = ataExists
    /\ \A i \in TxsOf("wrap") :
          /\ Ops(chain[i].instrs) =
                IF ataInfo THEN <<"transfer", "syncNative">>
                           ELSE <<"createAta", "transfer", "syncNative">>
          /\ \A k \in 1..Len(chain[i].instrs) :
                chain[i].instrs[k].op = "transfer" =>
                    /\ chain[i].instrs[k].lamports = 2000000
                    /\ chain[i].instrs[k].from = WALLET
                    /\ chain[i].instrs[k].to = ATA

\* the account existed: the wrap transaction was fund + sync
C5_Witness ==
    /\ pc = "cmp_treeInfos"
    /\ ataInfo
    /\ TxsOf("wrap") = {2}
    /\ Ops(chain[2].instrs) = <<"transfer", "syncNative">>

----------------------------------------------------------------------------
(* C6 *)

\* C6: every compress transaction compresses 2000000 lamports (twice the test
\* amount) and every compressed transfer moves 1000000 (once the test amount,
\* less than what was compressed) to the recipient; when the compressed probe
\* has returned, the wallet is left with 1000000 more compressed lamports than
\* it began with and the recipient with the 1000000 transferred.
C6_CompressTwiceTransferOnce ==
    /\ \A i \in TxsOf("compress") :
          /\ chain[i].instrs[2].op = "compress"
          /\ chain[i].instrs[2].lamports = 2000000
    /\ \A i \in TxsOf("compressedTransfer") :
          /\ chain[i].instrs[1].lamports = 1000000
          /\ chain[i].instrs[1].to = env.TEST_RECIPIENT_ADDRESS
          /\ \A j \in TxsOf("compress") : chain[i].instrs[1].lamports < chain[j].instrs[2].lamports
    /\ compressedResult # NoResult =>
          /\ Cardinality(TxsOf("compress")) = 1
          /\ Cardinality(TxsOf("compressedTransfer")) = 1
          /\ compressed[WALLET] - priorCompressed = 1000000
          /\ compressed[WALLET] > 0
          /\ compressed[RECIPIENT] = 1000000

\* a successful run from an empty compressed balance leaves one test amount
C6_Witness ==
    /\ Succeeded
    /\ pc = "exited"
    /\ priorCompressed = 0
    /\ compressed[WALLET] = 1000000

----------------------------------------------------------------------------
(* C7 *)

\* C7: when a run has printed its summary, it has printed exactly one of the
\* two branches: the "equal fees" line, showing the fee, exactly when the two
\* probes returned equal fees, and the "different fees" line, showing both
\* fees, exactly when they returned different fees; no branch is printed
\* before the summary.
C7_ReporterBranch ==
    /\ Succeeded =>
          /\ Cardinality(LinesWith("equal") \cup LinesWith("different")) = 1
          /\ standardResult.fee = compressedResult.fee =>
                \E i \in LinesWith("equal") : out[i].vals = <<standardResult.fee>>
          /\ standardResult.fee # compressedResult.fee =>
                \E i \in LinesWith("different") :
                    out[i].vals = <<standardResult.fee, compressedResult.fee>>
    /\ ~Succeeded => LinesWith("equal") \cup LinesWith("different") = {}

\* fees of 5000 and 10000: the "different fees" branch
C7_Witness ==
    /\ Succeeded
    /\ standardResult.fee = BASE_FEE
    /\ compressedResult.fee = 2 * BASE_FEE
    /\ \E i \in LinesWith("different") : out[i].vals = <<BASE_FEE, 2 * BASE_FEE>>

----------------------------------------------------------------------------
(* C8 *)

StepOrder == <<"standard", "wrap", "compress", "compressedTransfer">>

\* C8: the transactions are submitted in the order standard transfer, wrap,
\* compress, compressed transfer, each after the one before it was reported
\* confirmed; the compressed probe's first transaction comes after the
\* standard probe returned and the pause; the compressed transfer comes after
\* the compress transaction was confirmed on the standard connection.
C8_SequentialOrder ==
    /\ Len(chain) <= Len(StepOrder)
    /\ \A i \in 1..Len(chain) : chain[i].id = i /\ chain[i].step = StepOrder[i]
    /\ \A i \in 2..Len(chain) : chain[i - 1].id \in confirmed
    /\ (Len(chain) >= 2 \/ pc \in AfterWrap \cup {"cmp_getAccountInfo", "cmp_wrap"}) =>
          /\ standardResult # NoResult
          /\ LinesWith("waiting") # {}
    /\ Len(chain) >= 4 => compressTxId = 3 /\ 3 \in stdConfirmed

\* all four transactions submitted and confirmed
C8_Witness ==
    /\ Len(chain) = 4
    /\ confirmed = {1, 2, 3, 4}
    /\ stdConfirmed = {3, 4}

----------------------------------------------------------------------------
(* C9 *)

\* C9: the compressed probe's result names the step-3 transfer transaction: its
\* txHash and explorer link are that transaction's, and its fee is the fee of
\* the backend's record of that transaction (0 without one), whatever the
\* records of the wrap and compress transactions hold.
C9_ResultIsTransferOnly ==
    compressedResult # NoResult =>
        /\ compressedResult.txHash \in TxsOf("compressedTransfer")
        /\ compressedResult.txHash = transferTxId
        /\ compressedResult.explorerUrl = <<"https://solscan.io/tx/", transferTxId>>
        /\ compressedResult.type = "Compressed Transfer"
        /\ compressedResult.fee =
              IF HasFee(txRecords[transferTxId]) THEN txRecords[transferTxId].fee ELSE 0

\* wrap paid 10000, compress paid 0, the transfer 5000: the result says 5000
C9_Witness ==
    /\ compressedResult # NoResult
    /\ Len(chain) = 4
    /\ txRecords[2] = FeeRecord(2 * BASE_FEE)
    /\ txRecords[3] = FeeRecord(0)
    /\ txRecords[4] = FeeRecord(BASE_FEE)
    /\ compressedResult.fee = BASE_FEE

----------------------------------------------------------------------------
(* C10 *)

\* C10: a probe whose lookup found no record, or a record without fee
\* metadata, returns a result with fee 0, as it does for a recorded fee of 0;
\* a run in which both lookups found no such fee ends without a failure and
\* prints the "equal fees" branch with 0.
C10_MissingRecordIsZero ==
    /\ (standardResult # NoResult /\ ~HasFee(txRecords[standardResult.txHash])) =>
          standardResult.fee = 0
    /\ (compressedResult # NoResult /\ ~HasFee(txRecords[compressedResult.txHash])) =>
          compressedResult.fee = 0
    /\ (compressedResult # NoResult
        /\ ~HasFee(txRecords[standardResult.txHash])
        /\ ~HasFee(txRecords[compressedResult.txHash])) =>
          /\ error = ""
          /\ pc \in {"resolved", "exited"} =>
                \E i \in LinesWith("equal") : out[i].vals = <<0>>

\* the standard lookup returned null, the compressed one a record without
\* meta: the run completed and printed the equal branch with 0
C10_Witness ==
    /\ pc = "exited"
    /\ error = ""
    /\ txRecords[1] = NullRecord
    /\ txRecords[4] = NoMetaRecord
    /\ standardResult.fee = 0
    /\ compressedResult.fee = 0
    /\ \E i \in LinesWith("equal") : out[i].vals = <<0>>

====
